---- MODULE Spec2Model ----
(***************************************************************************)
(* Model of optional_compare_catalogs.py: the catalog loader               *)
(* (_read_catalog), the snapshot differ and leaderboard builder            *)
(* (_make_report) of the media catalog comparison.                         *)
(*                                                                         *)
(* Representation                                                          *)
(*   - an optional value (pd.NA / NaN) is NA == <<>>, a present value v is *)
(*     Some(v) == <<v>>;                                                   *)
(*   - an id is the text of its CSV cell, a sequence of characters;        *)
(*   - a rating is held in tenths (7.2 is 72); a difference of two ratings *)
(*     is the exact value of the float64 subtraction, held as              *)
(*     [tenths, ulps]: tenths/10 + ulps * 2^-50 / 10;                      *)
(*   - a quotient of two integers (VotesDeltaPct) is held as [num, den]    *)
(*     and compared by cross multiplication, which orders the float64      *)
(*     quotients of small integers exactly as the rationals.               *)
(***************************************************************************)
EXTENDS Integers, Sequences, FiniteSets, TLC

(***************************************************************************)
(* Bounds of the explored inputs.                                          *)
(***************************************************************************)
MaxRows == 3
MaxVotes == 2
MaxTop == 3
MaxMinOld == 2
MaxNewMin == 1
MaxNeg == 1
MaxDirs == 2
MaxMinVotes == 1

VARIABLES pc, oldFile, newFile, args, top_n, min_old_votes_for_percent,
          new_title_min_votes, old_df, new_df, merged, tables, error, report,
          dirs, cmd, runs

\* the command line and the two catalog files
inputs == <<oldFile, newFile, args>>
\* the keyword arguments of _make_report
params == <<top_n, min_old_votes_for_percent, new_title_min_votes>>

\* the state of a comparison (optional_compare_catalogs.py)
cvars == <<pc, inputs, params, old_df, new_df, merged, tables, error, report>>
\* the state of the daily builds (main.py): the folders under out_root, the
\* command line and the runs
dvars == <<dirs, cmd, runs>>

vars == <<cvars, dvars>>

(***************************************************************************)
(* Optional values.                                                        *)
(***************************************************************************)
NA == <<>>
Some(v) == <<v>>
Val(o) == o[1]
IsNA(o) == o = NA
NotNA(o) == o # NA

\* Series.fillna(0).astype(int)
FillNa0(o) == IF IsNA(o) THEN 0 ELSE Val(o)

Min(a, b) == IF a <= b THEN a ELSE b
Max(a, b) == IF a >= b THEN a ELSE b

Range(s) == {s[i] : i \in 1..Len(s)}

\* Boolean-mask selection df[mask]: the rows that pass, in their order.
SelectRows(s, Keep(_)) ==
    LET f[i \in 0..Len(s)] ==
            IF i = 0 THEN <<>>
            ELSE IF Keep(s[i]) THEN Append(f[i - 1], s[i]) ELSE f[i - 1]
    IN  f[Len(s)]

\* DataFrame.head(n)
HeadN(s, n) == SubSeq(s, 1, Min(n, Len(s)))

(***************************************************************************)
(* Text: character order and str.strip().                                  *)
(***************************************************************************)
Chars == {" ", "A", "B", "C", "a", "b", "c"}
Ord == [ch \in Chars |-> CASE ch = " " -> 32
                           [] ch = "A" -> 65
                           [] ch = "B" -> 66
                           [] ch = "C" -> 67
                           [] ch = "a" -> 97
                           [] ch = "b" -> 98
                           [] ch = "c" -> 99]

RECURSIVE TextLess(_, _)
TextLess(s, t) ==
    IF t = <<>> THEN FALSE
    ELSE IF s = <<>> THEN TRUE
    ELSE IF Ord[Head(s)] # Ord[Head(t)] THEN Ord[Head(s)] < Ord[Head(t)]
    ELSE TextLess(Tail(s), Tail(t))

RECURSIVE LStrip(_)
LStrip(s) == IF s # <<>> /\ Head(s) = " " THEN LStrip(Tail(s)) ELSE s

RECURSIVE RStrip(_)
RStrip(s) ==
    IF s # <<>> /\ s[Len(s)] = " " THEN RStrip(SubSeq(s, 1, Len(s) - 1)) ELSE s

Strip(s) == RStrip(LStrip(s))

(***************************************************************************)
(* Stable sort by a strict order (DataFrame.sort_values keeps the          *)
(* original order of rows that compare equal).                             *)
(***************************************************************************)
InsertStable(t, x, Less(_, _)) ==
    LET k == Cardinality({j \in 1..Len(t) : ~Less(x, t[j])})
    IN  SubSeq(t, 1, k) \o <<x>> \o SubSeq(t, k + 1, Len(t))

SortBy(s, Less(_, _)) ==
    LET f[i \in 0..Len(s)] ==
            IF i = 0 THEN <<>> ELSE InsertStable(f[i - 1], s[i], Less)
    IN  f[Len(s)]

\* One sort key with na_position="last": an undefined key sorts after every
\* defined key, whatever the direction.
KeyBefore(ka, kb, asc, Lt(_, _)) ==
    IF IsNA(ka) THEN FALSE
    ELSE IF IsNA(kb) THEN TRUE
    ELSE IF asc THEN Lt(Val(ka), Val(kb)) ELSE Lt(Val(kb), Val(ka))

KeyTie(ka, kb, Lt(_, _)) ==
    IF IsNA(ka) \/ IsNA(kb) THEN IsNA(ka) /\ IsNA(kb)
    ELSE ~Lt(Val(ka), Val(kb)) /\ ~Lt(Val(kb), Val(ka))

IntLt(a, b) == a < b
\* float64 quotients num/den (den > 0) of small integers
PctLt(a, b) == a.num * b.den < b.num * a.den
\* float64 differences of ratings
F64Lt(a, b) == a.tenths < b.tenths \/ (a.tenths = b.tenths /\ a.ulps < b.ulps)

(***************************************************************************)
(* float64: the representation error of a rating t/10, in units of         *)
(* 2^-50 / 10 (7.1 is stored as 7.0999999999999996447, 7.2 as              *)
(* 7.2000000000000001776; 6.0, 7.0 and 8.0 are stored exactly).  The       *)
(* subtraction of two ratings within a factor of two of one another is     *)
(* exact, so the difference carries the difference of the errors.          *)
(***************************************************************************)
RatingValues == {70, 71, 72}
F64Ratings == RatingValues \cup {60, 80}
F64Err == [t \in F64Ratings |-> CASE t = 60 -> 0
                                  [] t = 70 -> 0
                                  [] t = 71 -> -4
                                  [] t = 72 -> 2
                                  [] t = 80 -> 0]

F64Sub(x, y) == [tenths |-> x - y, ulps |-> F64Err[x] - F64Err[y]]

(***************************************************************************)
(* _read_catalog                                                           *)
(***************************************************************************)
Required == {"Title", "Year", "IMDbID", "Type", "Rating", "Votes"}
Optional == {"primary_genre", "runtime"}
AllColumns == Required \cup Optional

\* Variant: Votes is not checked.
MissingColumnsLax(file) == (Required \ {"Votes"}) \ file.cols

\* required - set(df.columns)
MissingColumns(file) == Required \ file.cols

\* pd.read_csv: an empty cell is NA; a column that is not in the header has
\* no cells, and lines 74-77 add it as all-NA.
ReadCsvRow(file, r) ==
    [IMDbID        |-> IF r.IMDbID = <<>> THEN NA ELSE Some(r.IMDbID),
     Votes         |-> r.Votes,
     Rating        |-> r.Rating,
     primary_genre |-> IF "primary_genre" \in file.cols THEN r.primary_genre ELSE NA,
     runtime       |-> IF "runtime" \in file.cols THEN r.runtime ELSE NA]

ReadCsv(file) == [i \in 1..Len(file.rows) |-> ReadCsvRow(file, file.rows[i])]

IdNotNa(r) == NotNA(r.IMDbID)
IdNotBlank(r) == Strip(Val(r.IMDbID)) # <<>>

\* Variant: only the NA ids are dropped, the blank ones stay.
DropNaIdsOnly(df) == SelectRows(df, IdNotNa)

\* df[df["IMDbID"].notna()] then df[df["IMDbID"].str.strip() != ""]
DropBlankIds(df) == SelectRows(SelectRows(df, IdNotNa), IdNotBlank)

\* df["IMDbID"].duplicated().any()
HasDuplicatedIds(df) ==
    \E i, j \in 1..Len(df) : i < j /\ df[i].IMDbID = df[j].IMDbID

\* Variant: ascending=[True, True], the fewest votes first.
DedupLessVotesAscending(a, b) ==
    \/ TextLess(Val(a.IMDbID), Val(b.IMDbID))
    \/ /\ a.IMDbID = b.IMDbID
       /\ FillNa0(a.Votes) < FillNa0(b.Votes)

\* sort_values(by=["IMDbID", "_VotesSort"], ascending=[True, False])
DedupLess(a, b) ==
    \/ TextLess(Val(a.IMDbID), Val(b.IMDbID))
    \/ /\ a.IMDbID = b.IMDbID
       /\ FillNa0(a.Votes) > FillNa0(b.Votes)

\* drop_duplicates(subset=["IMDbID"], keep="first")
RECURSIVE DropDuplicatesKeepFirst(_, _)
DropDuplicatesKeepFirst(s, seen) ==
    IF s = <<>> THEN <<>>
    ELSE IF Head(s).IMDbID \in seen THEN DropDuplicatesKeepFirst(Tail(s), seen)
         ELSE <<Head(s)>> \o
              DropDuplicatesKeepFirst(Tail(s), seen \cup {Head(s).IMDbID})

Dedup(df) ==
    IF HasDuplicatedIds(df)
    THEN DropDuplicatesKeepFirst(SortBy(df, DedupLess), {})
    ELSE df

\* Variant: method="dense", a tie does not leave a gap.
RankDenseDesc(vals) ==
    [i \in 1..Len(vals) |->
        1 + Cardinality({vals[j] : j \in {k \in 1..Len(vals) : vals[k] > vals[i]}})]

\* Series.rank(method="min", ascending=False): the values are ordered
\* descending and every value gets the first position its group occupies.
RankMinDesc(vals) ==
    LET Desc(a, b) == a > b
        sorted == SortBy(vals, Desc)
    IN  [i \in 1..Len(vals) |->
            CHOOSE p \in 1..Len(sorted) :
                /\ sorted[p] = vals[i]
                /\ \A q \in 1..(p - 1) : sorted[q] # vals[i]]

AddVotesRank(df) ==
    LET votes_for_rank == [i \in 1..Len(df) |-> FillNa0(df[i].Votes)]
        ranks == RankMinDesc(votes_for_rank)
    IN  [i \in 1..Len(df) |->
            [IMDbID        |-> Val(df[i].IMDbID),
             Votes         |-> df[i].Votes,
             Rating        |-> df[i].Rating,
             primary_genre |-> df[i].primary_genre,
             runtime       |-> df[i].runtime,
             VotesRank     |-> ranks[i]]]

\* The frame _read_catalog returns for a file that has the required columns.
ReadCatalog(file) == AddVotesRank(Dedup(DropBlankIds(ReadCsv(file))))

(***************************************************************************)
(* _make_report: the outer join and the derived columns                    *)
(***************************************************************************)
IdsOf(df) == {df[i].IMDbID : i \in 1..Len(df)}

RECURSIVE DistinctKeepFirst(_, _)
DistinctKeepFirst(s, seen) ==
    IF s = <<>> THEN <<>>
    ELSE IF Head(s) \in seen THEN DistinctKeepFirst(Tail(s), seen)
         ELSE <<Head(s)>> \o DistinctKeepFirst(Tail(s), seen \cup {Head(s)})

\* how="outer": the union of the keys of both frames, sorted lexicographically
OuterKeys(l, r) ==
    SortBy(DistinctKeepFirst([i \in 1..Len(l) |-> l[i].IMDbID] \o
                             [i \in 1..Len(r) |-> r[i].IMDbID], {}),
           TextLess)

\* One row of the join: the columns of both sides under the suffixes _old and
\* _new, those of a missing side NA, and the indicator column _merge.
JoinRow(k, lrow, rrow) ==
    [IMDbID             |-> k,
     Votes_old          |-> IF IsNA(lrow) THEN NA ELSE Val(lrow).Votes,
     Votes_new          |-> IF IsNA(rrow) THEN NA ELSE Val(rrow).Votes,
     Rating_old         |-> IF IsNA(lrow) THEN NA ELSE Val(lrow).Rating,
     Rating_new         |-> IF IsNA(rrow) THEN NA ELSE Val(rrow).Rating,
     primary_genre_old  |-> IF IsNA(lrow) THEN NA ELSE Val(lrow).primary_genre,
     primary_genre_new  |-> IF IsNA(rrow) THEN NA ELSE Val(rrow).primary_genre,
     runtime_old        |-> IF IsNA(lrow) THEN NA ELSE Val(lrow).runtime,
     runtime_new        |-> IF IsNA(rrow) THEN NA ELSE Val(rrow).runtime,
     VotesRank_old      |-> IF IsNA(lrow) THEN NA ELSE Some(Val(lrow).VotesRank),
     VotesRank_new      |-> IF IsNA(rrow) THEN NA ELSE Some(Val(rrow).VotesRank),
     _merge             |-> IF IsNA(rrow) THEN "left_only"
                            ELSE IF IsNA(lrow) THEN "right_only" ELSE "both"]

\* The rows of the join for one key: every pairing of the left rows with the
\* right rows that carry it, or the rows of the one side that has it.
JoinKey(k, l, r) ==
    LET HasKey(row) == row.IMDbID = k
        lm == SelectRows(l, HasKey)
        rm == SelectRows(r, HasKey)
    IN  IF lm = <<>> THEN [j \in 1..Len(rm) |-> JoinRow(k, NA, Some(rm[j]))]
        ELSE IF rm = <<>> THEN [i \in 1..Len(lm) |-> JoinRow(k, Some(lm[i]), NA)]
        ELSE [n \in 1..(Len(lm) * Len(rm)) |->
                JoinRow(k, Some(lm[((n - 1) \div Len(rm)) + 1]),
                           Some(rm[((n - 1) % Len(rm)) + 1]))]

\* Variant: how="left", the keys of the old frame only.
MergeLeft(l, r) ==
    LET keys == DistinctKeepFirst([i \in 1..Len(l) |-> l[i].IMDbID], {})
        f[i \in 0..Len(keys)] ==
            IF i = 0 THEN <<>> ELSE f[i - 1] \o JoinKey(keys[i], l, r)
    IN  f[Len(keys)]

\* old_df.merge(new_df, on="IMDbID", how="outer", suffixes=("_old", "_new"),
\*              indicator=True)
MergeOuter(l, r) ==
    LET keys == OuterKeys(l, r)
        f[i \in 0..Len(keys)] ==
            IF i = 0 THEN <<>> ELSE f[i - 1] \o JoinKey(keys[i], l, r)
    IN  f[Len(keys)]

\* Variant: the quotient is taken whatever the denominator.
VotesDeltaPctUnguarded(votes_delta, votes_old) ==
    Some([num |-> votes_delta, den |-> votes_old])

\* lambda r: (r["VotesDelta"] / r["Votes_old"]) if r["Votes_old"] > 0 else nan
VotesDeltaPctOf(votes_delta, votes_old) ==
    IF votes_old > 0 THEN Some([num |-> votes_delta, den |-> votes_old]) ELSE NA

\* Variant: the old rating minus the new one.
RatingDeltaSwapped(rating_new, rating_old) ==
    IF IsNA(rating_new) \/ IsNA(rating_old) THEN NA
    ELSE Some(F64Sub(Val(rating_old), Val(rating_new)))

\* merged["Rating_new"] - merged["Rating_old"] over float64 with NaN
RatingDeltaOf(rating_new, rating_old) ==
    IF IsNA(rating_new) \/ IsNA(rating_old) THEN NA
    ELSE Some(F64Sub(Val(rating_new), Val(rating_old)))

\* Variant: the new rank minus the old one.
RankChangeSwapped(rank_old, rank_new) ==
    IF IsNA(rank_old) \/ IsNA(rank_new) THEN NA
    ELSE Some(Val(rank_new) - Val(rank_old))

\* merged["VotesRank_old"] - merged["VotesRank_new"] over Int64 with NA
RankChangeOf(rank_old, rank_new) ==
    IF IsNA(rank_old) \/ IsNA(rank_new) THEN NA
    ELSE Some(Val(rank_old) - Val(rank_new))

\* The helper columns of one joined row.
DeriveRow(j) ==
    LET votes_old == FillNa0(j.Votes_old)
        votes_new == FillNa0(j.Votes_new)
    IN  [IMDbID             |-> j.IMDbID,
         _merge             |-> j._merge,
         Votes_old          |-> votes_old,
         Votes_new          |-> votes_new,
         Rating_old         |-> j.Rating_old,
         Rating_new         |-> j.Rating_new,
         primary_genre_old  |-> j.primary_genre_old,
         primary_genre_new  |-> j.primary_genre_new,
         runtime_old        |-> j.runtime_old,
         runtime_new        |-> j.runtime_new,
         VotesRank_old      |-> j.VotesRank_old,
         VotesRank_new      |-> j.VotesRank_new,
         VotesDelta         |-> votes_new - votes_old,
         VotesDeltaPct      |-> VotesDeltaPctOf(votes_new - votes_old, votes_old),
         RatingDelta        |-> RatingDeltaOf(j.Rating_new, j.Rating_old),
         RankChange         |-> RankChangeOf(j.VotesRank_old, j.VotesRank_new)]

MakeMerged(l, r) ==
    LET m == MergeOuter(l, r) IN [i \in 1..Len(m) |-> DeriveRow(m[i])]

(***************************************************************************)
(* _make_report: the slices and the seven leaderboards                     *)
(***************************************************************************)
IsBoth(r) == r._merge = "both"
IsRightOnly(r) == r._merge = "right_only"
IsLeftOnly(r) == r._merge = "left_only"

Common(m) == SelectRows(m, IsBoth)
NewOnly(m) == SelectRows(m, IsRightOnly)
RemovedOnly(m) == SelectRows(m, IsLeftOnly)

\* sort_values(by=[k1, k2], ascending=[asc1, asc2]) as a strict order on rows
Lex2(k1a, k1b, asc1, Lt1(_, _), k2a, k2b, asc2, Lt2(_, _)) ==
    \/ KeyBefore(k1a, k1b, asc1, Lt1)
    \/ KeyTie(k1a, k1b, Lt1) /\ KeyBefore(k2a, k2b, asc2, Lt2)

\* by=["VotesDelta", "Votes_new"], ascending=[False, False]
VoteGainersLess(a, b) ==
    Lex2(Some(a.VotesDelta), Some(b.VotesDelta), FALSE, IntLt,
         Some(a.Votes_new), Some(b.Votes_new), FALSE, IntLt)

\* by=["VotesDeltaPct", "VotesDelta"], ascending=[False, False]
PctGainersLess(a, b) ==
    Lex2(a.VotesDeltaPct, b.VotesDeltaPct, FALSE, PctLt,
         Some(a.VotesDelta), Some(b.VotesDelta), FALSE, IntLt)

\* by=["RatingDelta", "Votes_new"], ascending=[False, False]
RatingUpLess(a, b) ==
    Lex2(a.RatingDelta, b.RatingDelta, FALSE, F64Lt,
         Some(a.Votes_new), Some(b.Votes_new), FALSE, IntLt)

\* by=["RatingDelta", "Votes_new"], ascending=[True, False]
RatingDownLess(a, b) ==
    Lex2(a.RatingDelta, b.RatingDelta, TRUE, F64Lt,
         Some(a.Votes_new), Some(b.Votes_new), FALSE, IntLt)

\* by=["RankChange", "Votes_new"], ascending=[False, False]
RankJumpsLess(a, b) ==
    Lex2(a.RankChange, b.RankChange, FALSE, IntLt,
         Some(a.Votes_new), Some(b.Votes_new), FALSE, IntLt)

\* by=["Votes_new", "Rating_new"], ascending=[False, False]
NewTitlesLess(a, b) ==
    Lex2(Some(a.Votes_new), Some(b.Votes_new), FALSE, IntLt,
         a.Rating_new, b.Rating_new, FALSE, IntLt)

\* by=["Votes_old", "Rating_old"], ascending=[False, False]
RemovedTitlesLess(a, b) ==
    Lex2(Some(a.Votes_old), Some(b.Votes_old), FALSE, IntLt,
         a.Rating_old, b.Rating_old, FALSE, IntLt)

\* Variant: head(top_n) before sort_values.
TopVoteGainersHeadFirst(m, top) == SortBy(HeadN(Common(m), top), VoteGainersLess)

TopVoteGainers(m, top) == HeadN(SortBy(Common(m), VoteGainersLess), top)

\* Variant: the floor on the old votes is strict.
TopPctVoteGainersStrict(m, top, min_old) ==
    LET Floor(r) == r.Votes_old > min_old
    IN  HeadN(SortBy(SelectRows(Common(m), Floor), PctGainersLess), top)

TopPctVoteGainers(m, top, min_old) ==
    LET Floor(r) == r.Votes_old >= min_old
    IN  HeadN(SortBy(SelectRows(Common(m), Floor), PctGainersLess), top)

BiggestRatingUp(m, top) == HeadN(SortBy(Common(m), RatingUpLess), top)

BiggestRatingDown(m, top) == HeadN(SortBy(Common(m), RatingDownLess), top)

BiggestRankJumps(m, top) ==
    LET HasRankChange(r) == NotNA(r.RankChange)
    IN  HeadN(SortBy(SelectRows(Common(m), HasRankChange), RankJumpsLess), top)

\* Variant: no floor on the new votes.
NewTitlesNoFloor(m, top, new_min) == HeadN(SortBy(NewOnly(m), NewTitlesLess), top)

NewTitles(m, top, new_min) ==
    LET Floor(r) == r.Votes_new >= new_min
    IN  HeadN(SortBy(SelectRows(NewOnly(m), Floor), NewTitlesLess), top)

RemovedTitles(m, top) == HeadN(SortBy(RemovedOnly(m), RemovedTitlesLess), top)

MakeTables(m, top, min_old, new_min) ==
    [top_vote_gainers     |-> TopVoteGainers(m, top),
     top_pct_vote_gainers |-> TopPctVoteGainers(m, top, min_old),
     biggest_rating_up    |-> BiggestRatingUp(m, top),
     biggest_rating_down  |-> BiggestRatingDown(m, top),
     biggest_rank_jumps   |-> BiggestRankJumps(m, top),
     new_titles           |-> NewTitles(m, top, new_min),
     removed_titles       |-> RemovedTitles(m, top)]

(***************************************************************************)
(* Formatting.  A text is the sequence of its characters ("" is <<>>); a   *)
(* value copied with str() is one piece of the sequence.                   *)
(***************************************************************************)
Abs(n) == IF n < 0 THEN -n ELSE n

DigitChars == <<"0", "1", "2", "3", "4", "5", "6", "7", "8", "9">>

RECURSIVE Digits(_)
Digits(n) ==
    IF n < 10 THEN <<DigitChars[n + 1]>>
    ELSE Digits(n \div 10) \o <<DigitChars[(n % 10) + 1]>>

\* The "," of a format specification: a comma before every group of three
\* digits, counted from the right.
RECURSIVE Grouped(_)
Grouped(ds) ==
    IF Len(ds) <= 3 THEN ds
    ELSE Grouped(SubSeq(ds, 1, Len(ds) - 3)) \o <<",">> \o SubSeq(ds, Len(ds) - 2, Len(ds))

\* f"{int(x):,}"
_fmt_int(x) ==
    IF IsNA(x) THEN <<>>
    ELSE (IF Val(x) < 0 THEN <<"-">> ELSE <<>>) \o Grouped(Digits(Abs(Val(x))))

\* f"{float(x):.1f}" of a rating, held in tenths
_fmt_float(x) ==
    IF IsNA(x) THEN <<>>
    ELSE Digits(Val(x) \div 10) \o <<".">> \o Digits(Val(x) % 10)

(***************************************************************************)
(* float64 arithmetic of the percentage.  A positive float64 is held as    *)
(* [sig, exp], worth sig * 2^exp: sig a natural number below 2^53 (or 2^53 *)
(* itself) written in limbs of LimbBits bits, the highest first.  Every    *)
(* operation rounds to nearest, a tie to the even significand, as IEEE 754 *)
(* does.  The limbs keep every product within 32 bits.                     *)
(***************************************************************************)
F64Precision == 53
LimbBits == 20

RECURSIVE Pow2(_)
Pow2(k) == IF k = 0 THEN 1 ELSE 2 * Pow2(k - 1)

\* the powers of two of a 32-bit int
P2 == [k \in 0..30 |-> Pow2(k)]
LimbBase == P2[LimbBits]

\* the number of binary digits of n; 0 for 0
BitLength(n) ==
    CHOOSE k \in 0..31 : (k = 31 \/ P2[k] > n) /\ (k = 0 \/ P2[k - 1] <= n)

RECURSIVE DecimalDigits(_)
DecimalDigits(n) == IF n = 0 THEN <<>> ELSE DecimalDigits(n \div 10) \o <<n % 10>>

Zeros(k) == [i \in 1..k |-> 0]

Reverse(s) == [i \in 1..Len(s) |-> s[Len(s) + 1 - i]]

\* the digits, in the given base and the lowest first, times the small number
\* c plus carry: as many digits, and the carry out of the highest one.  The
\* sequence is halved rather than walked.
RECURSIVE MulAddLow(_, _, _, _)
MulAddLow(digits, base, c, carry) ==
    IF digits = <<>> THEN [digits |-> <<>>, carry |-> carry]
    ELSE IF Len(digits) = 1
         THEN LET t == digits[1] * c + carry
              IN  [digits |-> <<t % base>>, carry |-> t \div base]
    ELSE LET h == Len(digits) \div 2
             low == MulAddLow(SubSeq(digits, 1, h), base, c, carry)
             high == MulAddLow(SubSeq(digits, h + 1, Len(digits)), base, c, low.carry)
         IN  [digits |-> low.digits \o high.digits, carry |-> high.carry]

\* the same of digits written the highest first
MulAdd(digits, base, c, carry) ==
    LET m == MulAddLow(Reverse(digits), base, c, carry)
    IN  [digits |-> Reverse(m.digits), carry |-> m.carry]

\* the limbs times the small number c, plus carry
BigMul(big, c, carry) ==
    LET m == MulAdd(big, LimbBase, c, carry)
    IN  (IF m.carry = 0 THEN <<>> ELSE <<m.carry>>) \o m.digits

\* the limbs without leading zero limbs
StripZeros(big) ==
    LET nz == {i \in 1..Len(big) : big[i] # 0}
    IN  IF nz = {} THEN <<>>
        ELSE SubSeq(big, CHOOSE i \in nz : \A k \in nz : i <= k, Len(big))

\* the number of binary digits of limbs that start with a limb other than 0
BigBitLength(big) == BitLength(big[1]) + LimbBits * (Len(big) - 1)

\* the binary digit worth 2^i
BitAt(big, i) ==
    LET at == Len(big) - (i \div LimbBits)
    IN  IF at < 1 THEN 0 ELSE (big[at] \div P2[i % LimbBits]) % 2

\* whether a binary digit worth less than 2^i is 1
LowNonZero(big, i) ==
    LET at == Len(big) - (i \div LimbBits)
    IN  \/ \E k \in (Max(at, 0) + 1)..Len(big) : big[k] # 0
        \/ at >= 1 /\ big[at] % P2[i % LimbBits] # 0

\* the limbs divided by 2^t, the remainder dropped
ShiftRight(big, t) ==
    LET b == t % LimbBits
        kept == SubSeq(big, 1, Max(0, Len(big) - (t \div LimbBits)))
    IN  [i \in 1..Len(kept) |->
            (kept[i] \div P2[b])
                + (IF i > 1 THEN (kept[i - 1] % P2[b]) * P2[LimbBits - b] ELSE 0)]

\* the limbs (followed by more if sticky) divided by 2^t, t > 0, and rounded
\* to the nearest integer, a tie to the even one
RoundShift(big, t, sticky) ==
    LET half == BitAt(big, t - 1) = 1
        more == sticky \/ LowNonZero(big, t - 1)
        odd == BitAt(big, t) = 1
    IN  IF half /\ (more \/ odd) THEN BigMul(ShiftRight(big, t), 1, 1)
        ELSE ShiftRight(big, t)

\* the limbs (followed by more if sticky) times 2^exp, rounded to the 53 bits
\* of a float64
F64Round(big, sticky, exp) ==
    LET s == StripZeros(big)
        t == BigBitLength(s) - F64Precision
    IN  IF t <= 0 THEN [sig |-> s, exp |-> exp]
        ELSE [sig |-> RoundShift(s, t, sticky), exp |-> exp + t]

\* bits more binary digits of the quotient r / d, r < d < 2^30, as a number,
\* and the remainder left; as many digits at a time as 32 bits allow
RECURSIVE LimbDiv(_, _, _)
LimbDiv(r, d, bits) ==
    IF bits <= 31 - BitLength(d)
    THEN [q |-> (r * P2[bits]) \div d, rem |-> (r * P2[bits]) % d]
    ELSE LET h == bits \div 2
             first == LimbDiv(r, d, h)
             second == LimbDiv(first.rem, d, bits - h)
         IN  [q |-> first.q * P2[bits - h] + second.q, rem |-> second.rem]

\* three limbs of the quotient r / d, r < d
Frac(r, d) ==
    LET l1 == LimbDiv(r, d, LimbBits)
        l2 == LimbDiv(l1.rem, d, LimbBits)
        l3 == LimbDiv(l2.rem, d, LimbBits)
    IN  [limbs |-> <<l1.q, l2.q, l3.q>>, rem |-> l3.rem]

\* the least k with n * 2^k >= d, for 0 < n < d < 2^30
ShiftsToReach(n, d) ==
    CHOOSE k \in 1..30 : n * P2[k] >= d /\ n * P2[k - 1] < d

\* VotesDelta / Votes_old of two positive int64 below 2^30: the float64
\* nearest to n / d.  The quotient is taken to 60 binary digits or more
\* before it is rounded.
F64Div(n, d) ==
    IF n >= d
    THEN LET frac == Frac(n % d, d)
         IN  F64Round(<<(n \div d) \div LimbBase, (n \div d) % LimbBase>> \o frac.limbs,
                      frac.rem # 0, -(3 * LimbBits))
    ELSE LET k == ShiftsToReach(n, d)
             frac == Frac(n * P2[k - 1], d)
         IN  F64Round(frac.limbs, frac.rem # 0, -(3 * LimbBits) - (k - 1))

\* 100.0 * x
F64Times100(x) == F64Round(BigMul(x.sig, 100, 0), FALSE, x.exp)

\* the decimal digits of limbs
RECURSIVE DecimalOfBig(_)
DecimalOfBig(big) ==
    IF big = <<>> THEN <<>>
    ELSE LET m == MulAdd(DecimalOfBig(SubSeq(big, 1, Len(big) - 1)), 10, LimbBase,
                         big[Len(big)])
         IN  DecimalDigits(m.carry) \o m.digits

\* f"{p:.1f}" of a positive float64 below 2^52 (its exp is negative): the
\* digits of 10 * p rounded to the nearest integer, a tie (p is exact) to the
\* even one, with the point set before the last digit.
F64FormatF1(p) ==
    LET tenth == RoundShift(BigMul(p.sig, 10, 0), -p.exp, FALSE)
        digits == DecimalOfBig(StripZeros(tenth))
        shown == IF Len(digits) < 2 THEN Zeros(2 - Len(digits)) \o digits ELSE digits
    IN  [i \in 1..(Len(shown) - 1) |-> DigitChars[shown[i] + 1]]
            \o <<".", DigitChars[shown[Len(shown)] + 1]>>

\* f"{100.0 * float(x):.1f}%" of the float64 quotient VotesDelta / Votes_old,
\* held as num / den: the division, the product and the format each round.
_fmt_pct(x) ==
    IF IsNA(x) THEN <<>>
    ELSE IF Val(x).num = 0 THEN <<"0", ".", "0", "%">>
    ELSE (IF Val(x).num < 0 THEN <<"-">> ELSE <<>>)
            \o F64FormatF1(F64Times100(F64Div(Abs(Val(x).num), Val(x).den)))
            \o <<"%">>

\* f"{xi:+,}"
_fmt_signed_int(x) ==
    IF IsNA(x) THEN <<>>
    ELSE (IF Val(x) < 0 THEN <<"-">> ELSE <<"+">>) \o Grouped(Digits(Abs(Val(x))))

\* f"{xf:+.1f}" of a difference of ratings: the float64 error is far below
\* half a tenth, so the digits are those of the tenths.
_fmt_signed_float(x) ==
    IF IsNA(x) THEN <<>>
    ELSE LET negative == Val(x).tenths < 0 \/ (Val(x).tenths = 0 /\ Val(x).ulps < 0)
             t == Abs(Val(x).tenths)
         IN  (IF negative THEN <<"-">> ELSE <<"+">>)
                 \o Digits(t \div 10) \o <<".">> \o Digits(t % 10)

\* " (-)" with the em dash of the source, held as the piece "--"
NoDelta == <<" ", "(", "--", ")">>

\* <latest> (<+/-delta>), or <latest> and a dash in brackets, or "".
_fmt_score(latest_rating, rating_delta) ==
    LET latest == _fmt_float(latest_rating)
        delta == _fmt_signed_float(rating_delta)
    IN  IF latest = <<>> THEN <<>>
        ELSE IF IsNA(rating_delta) THEN latest \o NoDelta
        ELSE IF delta = <<>> THEN latest \o NoDelta
        ELSE latest \o <<" ", "(">> \o delta \o <<")">>

\* html.escape(str(s))
RECURSIVE _escape(_)
_escape(s) ==
    IF s = <<>> THEN <<>>
    ELSE (CASE Head(s) = "&" -> <<"&", "a", "m", "p", ";">>
            [] Head(s) = "<" -> <<"&", "l", "t", ";">>
            [] Head(s) = ">" -> <<"&", "g", "t", ";">>
            [] Head(s) = "\"" -> <<"&", "q", "u", "o", "t", ";">>
            [] Head(s) = "'" -> <<"&", "#", "x", "2", "7", ";">>
            [] OTHER -> <<Head(s)>>) \o _escape(Tail(s))

_imdb_url(imdb_id) == <<"https://www.imdb.com/title/">> \o imdb_id \o <<"/">>

(***************************************************************************)
(* _make_report: the rows and columns of the tables.  The two labels are   *)
(* taken to differ; "old" and "new" stand for them in the column names.    *)
(* Title, Year and Type are copied from columns the model does not carry;  *)
(* the Title cell is held as the address it links to.                      *)
(***************************************************************************)
rows_for(df, kind) ==
    [i \in 1..Len(df) |->
        LET r == df[i]
            primary_genre == IF NotNA(r.primary_genre_new) THEN r.primary_genre_new
                             ELSE r.primary_genre_old
            runtime == IF NotNA(r.runtime_new) THEN r.runtime_new ELSE r.runtime_old
            score == IF kind = "new" THEN _fmt_score(r.Rating_new, NA)
                     ELSE IF kind = "removed" THEN _fmt_score(r.Rating_old, NA)
                     ELSE _fmt_score(r.Rating_new, r.RatingDelta)
            row == ("IMDbID" :> r.IMDbID) @@ ("Score" :> score)
                   @@ ("primary_genre" :> (IF NotNA(primary_genre) THEN primary_genre ELSE <<>>))
                   @@ ("runtime" :> _fmt_int(runtime))
            pair == ("Votes (old)" :> _fmt_int(Some(r.Votes_old)))
                    @@ ("Votes (new)" :> _fmt_int(Some(r.Votes_new)))
                    @@ ("Votes delta" :> _fmt_signed_int(Some(r.VotesDelta)))
                    @@ ("Votes delta%" :> _fmt_pct(r.VotesDeltaPct))
                    @@ ("Rank (old)" :> _fmt_int(r.VotesRank_old))
                    @@ ("Rank (new)" :> _fmt_int(r.VotesRank_new))
                    @@ ("Rank delta" :> _fmt_signed_int(r.RankChange))
            new == ("Votes (new)" :> _fmt_int(Some(r.Votes_new)))
                   @@ ("Rank (new)" :> _fmt_int(r.VotesRank_new))
            removed == ("Votes (old)" :> _fmt_int(Some(r.Votes_old)))
                       @@ ("Rank (old)" :> _fmt_int(r.VotesRank_old))
        IN  IF kind \in {"common", "votes", "pct", "rating", "rank"} THEN pair @@ row
            ELSE IF kind = "new" THEN new @@ row
            ELSE IF kind = "removed" THEN removed @@ row
            ELSE row]

VotesColumns ==
    <<"Score", "Title", "primary_genre", "runtime",
      "Votes (old)", "Votes (new)", "Votes delta", "Votes delta%">>
RatingColumns ==
    <<"Score", "Title", "primary_genre", "runtime", "Votes (new)", "Votes delta">>
RankColumns ==
    <<"Score", "Title", "primary_genre", "runtime",
      "Rank (old)", "Rank (new)", "Rank delta", "Votes delta", "Votes (new)">>
NewColumns ==
    <<"Score", "Title", "primary_genre", "runtime", "Votes (new)", "Rank (new)">>
RemovedColumns ==
    <<"Score", "Title", "primary_genre", "runtime", "Votes (old)", "Rank (old)">>

\* The cells of a table: for every row the escaped value of every column of
\* the table, "" for a column the row lacks.
_render_table(columns, rows) ==
    [columns |-> columns,
     rows    |-> [i \in 1..Len(rows) |->
                    LET row == rows[i]
                    IN  [c \in Range(columns) |->
                            IF c = "Title"
                            THEN (IF row["IMDbID"] # <<>>
                                  THEN _escape(_imdb_url(row["IMDbID"])) ELSE <<>>)
                            ELSE IF c \in DOMAIN row THEN _escape(row[c])
                            ELSE <<>>]]]

\* Variant: the summary counts the rows of the tables.
MakeDocumentFromTables(m, t) ==
    [common  |-> Grouped(Digits(Len(t.top_vote_gainers))),
     new     |-> Grouped(Digits(Len(t.new_titles))),
     removed |-> Grouped(Digits(Len(t.removed_titles))),
     tables  |->
        [top_vote_gainers     |-> _render_table(VotesColumns, rows_for(t.top_vote_gainers, "votes")),
         top_pct_vote_gainers |-> _render_table(VotesColumns, rows_for(t.top_pct_vote_gainers, "pct")),
         biggest_rating_up    |-> _render_table(RatingColumns, rows_for(t.biggest_rating_up, "rating")),
         biggest_rating_down  |-> _render_table(RatingColumns, rows_for(t.biggest_rating_down, "rating")),
         biggest_rank_jumps   |-> _render_table(RankColumns, rows_for(t.biggest_rank_jumps, "rank")),
         new_titles           |-> _render_table(NewColumns, rows_for(t.new_titles, "new")),
         removed_titles       |-> _render_table(RemovedColumns, rows_for(t.removed_titles, "removed"))]]

\* The summary panel (f"{len(common):,}" and so on) and the seven tables of the
\* written document; the generation time is left out.
MakeDocument(m, t) ==
    [common  |-> Grouped(Digits(Len(Common(m)))),
     new     |-> Grouped(Digits(Len(NewOnly(m)))),
     removed |-> Grouped(Digits(Len(RemovedOnly(m)))),
     tables  |->
        [top_vote_gainers     |-> _render_table(VotesColumns, rows_for(t.top_vote_gainers, "votes")),
         top_pct_vote_gainers |-> _render_table(VotesColumns, rows_for(t.top_pct_vote_gainers, "pct")),
         biggest_rating_up    |-> _render_table(RatingColumns, rows_for(t.biggest_rating_up, "rating")),
         biggest_rating_down  |-> _render_table(RatingColumns, rows_for(t.biggest_rating_down, "rating")),
         biggest_rank_jumps   |-> _render_table(RankColumns, rows_for(t.biggest_rank_jumps, "rank")),
         new_titles           |-> _render_table(NewColumns, rows_for(t.new_titles, "new")),
         removed_titles       |-> _render_table(RemovedColumns, rows_for(t.removed_titles, "removed"))]]

(***************************************************************************)
(* The explored inputs: catalog files and parameters.                      *)
(***************************************************************************)
FileRow(id, v, r) ==
    [IMDbID |-> id, Votes |-> v, Rating |-> r,
     primary_genre |-> Some("Drama"), runtime |-> Some(90)]

VoteCells == {NA} \cup {Some(v) : v \in 0..MaxVotes}
PresentVotes == {Some(v) : v \in 0..MaxVotes}
RatingCells == {NA} \cup {Some(t) : t \in RatingValues}

\* Well-formed catalogs: at most one row for each of the ids a and b.
RowsFor(id, V, R) == {<<>>} \cup {<<FileRow(id, v, r)>> : v \in V, r \in R}
CleanRows(V, R) ==
    {ra \o rb : ra \in RowsFor(<<"a">>, V, R), rb \in RowsFor(<<"b">>, V, R)}

\* Catalogs of upstream data-quality problems: empty and blank id cells,
\* repeated ids (with equal or different votes), rows in any order.
DirtyRowValues ==
    {FileRow(id, Some(MaxVotes), Some(70)) : id \in {<<>>, <<" ">>}}
    \cup {FileRow(id, c[1], c[2]) :
            id \in {<<"a">>, <<"b">>},
            c \in {<<NA, Some(70)>>, <<Some(MaxVotes), Some(70)>>,
                   <<Some(MaxVotes), Some(72)>>}}
DirtyRows == UNION {[1..n -> DirtyRowValues] : n \in 0..MaxRows}

\* Headers: the current one, the older ones without primary_genre and/or
\* runtime, and headers that lack required columns.
GoodHeaders ==
    {AllColumns, AllColumns \ {"runtime"}, AllColumns \ {"primary_genre"}, Required}
BadHeaders ==
    {AllColumns \ {"Votes"}, Required \ {"IMDbID", "Rating"}, Optional}

File(cols, rows) == [cols |-> cols, rows |-> rows]

ReferenceNewRows ==
    <<FileRow(<<"a">>, Some(MaxVotes), Some(71)), FileRow(<<"c">>, NA, Some(70))>>

\* Three titles present in both catalogs.
BothRows(V, R) ==
    {<<FileRow(<<"a">>, va, ra), FileRow(<<"b">>, vb, rb), FileRow(<<"c">>, vc, rc)>> :
        va \in V, vb \in V, vc \in V, ra \in R, rb \in R, rc \in R}

\* argparse: --top, --min-old-votes-for-percent and --new-title-min-votes are
\* parsed with type=int.
Args(t, m, n) ==
    [top |-> t, min_old_votes_for_percent |-> m, new_title_min_votes |-> n]

\* Two titles, each in either catalog or both: the votes vary, and one of
\* --top and the two floors.
InitVotes ==
    /\ oldFile \in {File(AllColumns, rows) : rows \in CleanRows(PresentVotes, {Some(70)})}
    /\ newFile \in {File(AllColumns, rows) : rows \in CleanRows(PresentVotes, {Some(70)})}
    /\ args \in {Args(t, 0, 0) : t \in 1..MaxTop}
                \cup {Args(MaxTop, m, 0) : m \in 0..MaxMinOld}
                \cup {Args(MaxTop, 0, n) : n \in 0..MaxNewMin}

\* Two titles, each in either catalog or both: the ratings vary.
InitRatings ==
    /\ oldFile \in {File(AllColumns, rows) : rows \in CleanRows({Some(1)}, RatingCells)}
    /\ newFile \in {File(AllColumns, rows) : rows \in CleanRows({Some(1)}, RatingCells)}
    /\ args \in {Args(t, 0, 0) : t \in 1..MaxTop}

\* Three titles in both catalogs: the votes vary, absent votes included; the
\* new votes of the third title are MaxVotes.
InitThreeVotes ==
    /\ oldFile \in {File(AllColumns, rows) : rows \in BothRows(VoteCells, {Some(70)})}
    /\ newFile \in {File(AllColumns, [rows EXCEPT ![3].Votes = Some(MaxVotes)]) :
                        rows \in BothRows(PresentVotes, {Some(70)})}
    /\ args \in {Args(t, 0, 0) : t \in 1..MaxTop}

\* Three titles in both catalogs: the ratings vary, the new votes are 1, 2, 2.
InitThreeRatings ==
    /\ oldFile \in {File(AllColumns, rows) :
                        rows \in BothRows({Some(1)}, {NA, Some(70), Some(71)})}
    /\ newFile \in {File(AllColumns,
                         [i \in 1..3 |-> [rows[i] EXCEPT !.Votes = Some(Min(i, 2))]]) :
                        rows \in BothRows({Some(1)}, {NA, Some(71), Some(72)})}
    /\ args \in {Args(t, 0, 0) : t \in 1..MaxTop}

\* The old catalog is dirty.
InitDirty ==
    /\ oldFile \in {File(AllColumns, rows) : rows \in DirtyRows}
    /\ newFile = File(AllColumns, ReferenceNewRows)
    /\ args = Args(MaxTop, 0, 0)

\* The headers vary.
InitHeaders ==
    /\ oldFile \in {File(cols, rows) : cols \in GoodHeaders \cup BadHeaders,
                                       rows \in CleanRows({Some(1)}, {Some(70)})}
    /\ newFile \in {File(cols, ReferenceNewRows) : cols \in GoodHeaders \cup BadHeaders}
    /\ args = Args(MaxTop, 0, 0)

\* The snapshots {A: 100 votes, 7.0; B: 50 votes, 8.0} and
\* {A: 150 votes, 7.2; C: 40 votes, 6.0}.
ExampleOldRows ==
    <<FileRow(<<"A">>, Some(100), Some(70)), FileRow(<<"B">>, Some(50), Some(80))>>
ExampleNewRows ==
    <<FileRow(<<"A">>, Some(150), Some(72)), FileRow(<<"C">>, Some(40), Some(60))>>

InitExample ==
    /\ oldFile = File(AllColumns, ExampleOldRows)
    /\ newFile = File(AllColumns, ExampleNewRows)
    /\ args \in {Args(t, m, n) : t \in 1..MaxTop, m \in 0..MaxMinOld, n \in 0..MaxNewMin}

\* The command line varies, zero and negative numbers included.
InitArgs ==
    /\ oldFile \in {File(AllColumns, rows) : rows \in CleanRows({Some(1)}, {Some(70)})}
    /\ newFile = File(AllColumns, ReferenceNewRows)
    /\ args \in {Args(t, m, n) : t \in (-MaxNeg)..MaxTop, m \in (-MaxNeg)..MaxMinOld,
                                 n \in (-MaxNeg)..MaxNewMin}

NoTables ==
    [top_vote_gainers |-> <<>>, top_pct_vote_gainers |-> <<>>,
     biggest_rating_up |-> <<>>, biggest_rating_down |-> <<>>,
     biggest_rank_jumps |-> <<>>, new_titles |-> <<>>, removed_titles |-> <<>>]

\* No daily build runs beside the comparison.
Runs == {"r1", "r2"}

NoDailyBuild ==
    /\ dirs = {}
    /\ cmd = [min_votes |-> 250, download_overwrite |-> FALSE]
    /\ runs = [r \in Runs |->
                [pc |-> "idle", i |-> 1, daily_dir |-> NA,
                 script |-> "01_download_imdb.py", started |-> <<>>, csv_for_db |-> NA]]

\* main() has parsed the command line; _make_report has not been called, its
\* parameters are not bound yet (held as 0).
Init ==
    /\ pc = "main"
    /\ \/ InitVotes
       \/ InitRatings
       \/ InitThreeVotes
       \/ InitThreeRatings
       \/ InitDirty
       \/ InitHeaders
       \/ InitArgs
       \/ InitExample
    /\ NoDailyBuild
    /\ top_n = 0
    /\ min_old_votes_for_percent = 0
    /\ new_title_min_votes = 0
    /\ old_df = <<>>
    /\ new_df = <<>>
    /\ merged = <<>>
    /\ tables = NoTables
    /\ error = NA
    /\ report = NA

(***************************************************************************)
(* main: the call of _make_report with the clamped parameters.             *)
(***************************************************************************)
\* Variant: --top is passed as given.
TopArgUnclamped(a) == a.top

\* top_n=max(1, int(args.top))
TopArg(a) == Max(1, a.top)

\* min_old_votes_for_percent=max(0, int(args.min_old_votes_for_percent))
MinOldVotesArg(a) == Max(0, a.min_old_votes_for_percent)

\* new_title_min_votes=max(0, int(args.new_title_min_votes))
NewTitleMinVotesArg(a) == Max(0, a.new_title_min_votes)

Main ==
    /\ pc = "main"
    /\ pc' = "start"
    /\ top_n' = TopArg(args)
    /\ min_old_votes_for_percent' = MinOldVotesArg(args)
    /\ new_title_min_votes' = NewTitleMinVotesArg(args)
    /\ UNCHANGED <<dvars, inputs, old_df, new_df, merged, tables, error, report>>

(***************************************************************************)
(* The steps of _make_report.                                              *)
(***************************************************************************)
\* old_df = _read_catalog(old_path): raises ValueError naming the missing
\* columns, which ends the run.
ReadOld ==
    /\ pc = "start"
    /\ IF MissingColumns(oldFile) # {}
       THEN /\ pc' = "failed"
            /\ error' = Some([path |-> "old", missing |-> MissingColumns(oldFile)])
            /\ UNCHANGED old_df
       ELSE /\ pc' = "old_read"
            /\ old_df' = ReadCatalog(oldFile)
            /\ UNCHANGED error
    /\ UNCHANGED <<dvars, inputs, params, new_df, merged, tables, report>>

\* new_df = _read_catalog(new_path)
ReadNew ==
    /\ pc = "old_read"
    /\ IF MissingColumns(newFile) # {}
       THEN /\ pc' = "failed"
            /\ error' = Some([path |-> "new", missing |-> MissingColumns(newFile)])
            /\ UNCHANGED new_df
       ELSE /\ pc' = "new_read"
            /\ new_df' = ReadCatalog(newFile)
            /\ UNCHANGED error
    /\ UNCHANGED <<dvars, inputs, params, old_df, merged, tables, report>>

\* The outer join and its helper columns.
Merge ==
    /\ pc = "new_read"
    /\ pc' = "merged"
    /\ merged' = MakeMerged(old_df, new_df)
    /\ UNCHANGED <<dvars, inputs, params, old_df, new_df, tables, error, report>>

\* The slices and the trending sections.
BuildTables ==
    /\ pc = "merged"
    /\ pc' = "built"
    /\ tables' = MakeTables(merged, top_n, min_old_votes_for_percent,
                            new_title_min_votes)
    /\ UNCHANGED <<dvars, inputs, params, old_df, new_df, merged, error, report>>

\* The document is rendered and written to out_path.
WriteReport ==
    /\ pc = "built"
    /\ pc' = "written"
    /\ report' = Some(MakeDocument(merged, tables))
    /\ UNCHANGED <<dvars, inputs, params, old_df, new_df, merged, tables, error>>

Next == Main \/ ReadOld \/ ReadNew \/ Merge \/ BuildTables \/ WriteReport

Spec == Init /\ [][Next]_vars

(***************************************************************************)
(* main.py: the daily build.  Every run is one invocation of main with the *)
(* same command line and the same date label; the runs share out_root.     *)
(* A folder is held by its name under out_root, a script argument by its   *)
(* text.                                                                   *)
(***************************************************************************)
base_name == <<"YYYY-MM-DD">>

\* out_root / base_name, then out_root / f"{base_name}_{i}" for i = 2, 3, ...
\* (i = 1 stands for the first candidate, before the loop)
Candidate(i) == IF i = 1 THEN base_name ELSE base_name \o <<"_">> \o Digits(i)

\* Variant: exist_ok=True, mkdir accepts a folder that is there.
MkdirExistOk(candidate, fs) == FALSE

\* candidate.mkdir(parents=True, exist_ok=False) raises FileExistsError
MkdirRaises(candidate, fs) == candidate \in fs

\* Variant: check=False, a failed script is not noticed.
CheckIgnored(exit) == FALSE

\* subprocess.run(cmd, check=True) raises CalledProcessError
CheckRaises(exit) == exit # "ok"

\* int(args.min_votes)
mv == cmd.min_votes

media_catalog == <<"media_catalog.csv">>
\* f"media_catalog_{mv}.csv"
media_catalog_mv == <<"media_catalog_">> \o Digits(Abs(mv)) \o <<".csv">>

db_name == <<"media_catalog.db">>

\* The arguments main passes to a script.
ScriptArgs(script, daily_dir, csv_for_db) ==
    CASE script = "01_download_imdb.py" ->
            <<<<"--dir">>, daily_dir>>
                \o (IF cmd.download_overwrite THEN <<<<"--overwrite">>>> ELSE <<>>)
      [] script = "02_create_catalog.py" -> <<<<"--dir">>, daily_dir>>
      [] script = "03_filter_catalog.py" ->
            <<(IF mv < 0 THEN <<"-">> ELSE <<>>) \o Digits(Abs(mv)), <<"--dir">>, daily_dir>>
      [] script = "04_make_database.py" ->
            <<<<"--dir">>, daily_dir, csv_for_db, <<"--db_file">>, db_name>>

\* The runs start in _make_daily_dir, on the first candidate; some folders
\* of earlier days' runs are there.
DailyInit ==
    /\ dirs \in SUBSET {Candidate(i) : i \in 1..MaxDirs}
    /\ cmd \in [min_votes : (-MaxNeg)..MaxMinVotes, download_overwrite : BOOLEAN]
    /\ runs = [r \in Runs |->
                [pc |-> "exists", i |-> 1, daily_dir |-> NA,
                 script |-> "01_download_imdb.py", started |-> <<>>, csv_for_db |-> NA]]
    /\ pc = "idle"
    /\ oldFile = File({}, <<>>)
    /\ newFile = File({}, <<>>)
    /\ args = Args(50, 1000, 0)
    /\ top_n = 0
    /\ min_old_votes_for_percent = 0
    /\ new_title_min_votes = 0
    /\ old_df = <<>>
    /\ new_df = <<>>
    /\ merged = <<>>
    /\ tables = NoTables
    /\ error = NA
    /\ report = NA

\* _make_daily_dir: if not candidate.exists()
CandidateExists(r) ==
    /\ runs[r].pc = "exists"
    /\ IF Candidate(runs[r].i) \notin dirs
       THEN runs' = [runs EXCEPT ![r].pc = "mkdir"]
       ELSE runs' = [runs EXCEPT ![r].i = @ + 1]
    /\ UNCHANGED <<dirs, cmd, cvars>>

\* _make_daily_dir: candidate.mkdir(parents=True, exist_ok=False); return
\* candidate.  FileExistsError ends the run.
CandidateMkdir(r) ==
    /\ runs[r].pc = "mkdir"
    /\ IF MkdirRaises(Candidate(runs[r].i), dirs)
       THEN /\ runs' = [runs EXCEPT ![r].pc = "failed"]
            /\ UNCHANGED dirs
       ELSE /\ dirs' = dirs \cup {Candidate(runs[r].i)}
            /\ runs' = [runs EXCEPT ![r].pc = "run",
                                    ![r].daily_dir = Some(Candidate(runs[r].i))]
    /\ UNCHANGED <<cmd, cvars>>

\* _run: subprocess.run starts the script
RunStart(r) ==
    /\ runs[r].pc = "run"
    /\ runs' = [runs EXCEPT
                 ![r].pc = "wait",
                 ![r].started =
                    Append(@, [script |-> runs[r].script,
                               args   |-> ScriptArgs(runs[r].script, Val(runs[r].daily_dir),
                                                     runs[r].csv_for_db),
                               exit   |-> "running"])]
    /\ UNCHANGED <<dirs, cmd, cvars>>

\* _run: the script exits; CalledProcessError ends the run, otherwise main goes
\* on to the next script, or prints the folder and returns.
RunExit(r) ==
    /\ runs[r].pc = "wait"
    /\ \E exit \in {"ok", "failed"} :
        LET log == [runs[r].started EXCEPT ![Len(runs[r].started)].exit = exit]
            script == runs[r].script
        IN  IF CheckRaises(exit)
            THEN runs' = [runs EXCEPT ![r].pc = "failed", ![r].started = log]
            ELSE IF script = "01_download_imdb.py"
            THEN runs' = [runs EXCEPT ![r].pc = "run", ![r].started = log,
                                      ![r].script = "02_create_catalog.py"]
            ELSE IF script = "02_create_catalog.py"
            THEN runs' = [runs EXCEPT ![r].pc = "run", ![r].started = log,
                                      ![r].csv_for_db = media_catalog,
                                      ![r].script = IF mv > 0 THEN "03_filter_catalog.py"
                                                    ELSE "04_make_database.py"]
            ELSE IF script = "03_filter_catalog.py"
            THEN runs' = [runs EXCEPT ![r].pc = "run", ![r].started = log,
                                      ![r].csv_for_db = media_catalog_mv,
                                      ![r].script = "04_make_database.py"]
            ELSE runs' = [runs EXCEPT ![r].pc = "done", ![r].started = log]
    /\ UNCHANGED <<dirs, cmd, cvars>>

DailyNext ==
    \E r \in Runs : CandidateExists(r) \/ CandidateMkdir(r) \/ RunStart(r) \/ RunExit(r)

DailySpec == DailyInit /\ [][DailyNext]_vars

(***************************************************************************)
(* Properties.  They are stated over the loaded snapshots old_df and       *)
(* new_df, the joined relation and the ids listed by each leaderboard.     *)
(***************************************************************************)
BeforeOld == {"main", "start"}
BeforeNew == {"main", "start", "old_read"}
AfterOld == {"old_read", "new_read", "merged", "built", "written"}
AfterNew == {"new_read", "merged", "built", "written"}
AfterMerge == {"merged", "built", "written"}
AfterBuild == {"built", "written"}

OldIds == IdsOf(old_df)
NewIds == IdsOf(new_df)
BothIds == OldIds \cap NewIds
OldEntry(id) == CHOOSE r \in Range(old_df) : r.IMDbID = id
NewEntry(id) == CHOOSE r \in Range(new_df) : r.IMDbID = id
\* votes with 0 substituted for absent votes and for an absent entry
OldVotes0(id) == IF id \in OldIds THEN FillNa0(OldEntry(id).Votes) ELSE 0
NewVotes0(id) == IF id \in NewIds THEN FillNa0(NewEntry(id).Votes) ELSE 0
JoinedIds == {merged[i].IMDbID : i \in 1..Len(merged)}
BoardIds(b) == [i \in 1..Len(b) |-> b[i].IMDbID]
IsBlankText(s) == \A i \in 1..Len(s) : s[i] = " "
NonBlankIds(file) ==
    {file.rows[i].IMDbID : i \in {k \in 1..Len(file.rows) : ~IsBlankText(file.rows[k].IMDbID)}}
MandatoryFields == {"IMDbID", "Title", "Year", "Type", "Rating", "Votes"}
HasMandatory(file) == MandatoryFields \subseteq file.cols

\* C1: the joined relation has exactly one row for every id of the old or the
\* new snapshot and no other row; its size is |old| + |new| - |old /\ new|.
C1_JoinIsTotal ==
    pc \in AfterMerge =>
        /\ JoinedIds = OldIds \cup NewIds
        /\ Len(merged) = Len(old_df) + Len(new_df) - Cardinality(BothIds)
        /\ \A i, j \in 1..Len(merged) : i # j => merged[i].IMDbID # merged[j].IMDbID
        /\ \A i \in 1..Len(merged) :
            /\ merged[i]._merge = "both" <=> merged[i].IMDbID \in BothIds
            /\ merged[i]._merge = "left_only" <=> merged[i].IMDbID \in OldIds \ NewIds
            /\ merged[i]._merge = "right_only" <=> merged[i].IMDbID \in NewIds \ OldIds

C1_Witness ==
    /\ pc = "merged"
    /\ BothIds # {}
    /\ OldIds \ NewIds # {}
    /\ NewIds \ OldIds # {}

\* C2: a file that has the required columns loads, whatever its rows; the ids
\* of the loaded relation are exactly the distinct non-blank ids of the file,
\* each on one row.
C2_LoadedIdsAreTheNonBlankIds ==
    /\ (pc \notin BeforeOld /\ HasMandatory(oldFile)) =>
            /\ pc = "failed" => Val(error).path = "new"
            /\ OldIds = NonBlankIds(oldFile)
            /\ Len(old_df) = Cardinality(NonBlankIds(oldFile))
    /\ (pc \notin BeforeNew /\ HasMandatory(oldFile) /\ HasMandatory(newFile)) =>
            /\ pc # "failed"
            /\ NewIds = NonBlankIds(newFile)
            /\ Len(new_df) = Cardinality(NonBlankIds(newFile))

C2_Witness ==
    /\ pc = "old_read"
    /\ \E i \in 1..Len(oldFile.rows) : oldFile.rows[i].IMDbID \in {<<>>, <<" ">>}
    /\ \E i, j \in 1..Len(oldFile.rows) :
            /\ i < j
            /\ oldFile.rows[i].IMDbID = oldFile.rows[j].IMDbID
            /\ ~IsBlankText(oldFile.rows[i].IMDbID)
    /\ Len(old_df) = 1

\* C3: votesRank is 1 plus the number of entries of the loaded relation with
\* strictly greater votes (absent counted as 0): equal votes share a rank, more
\* votes give a strictly smaller rank, the greatest votes have rank 1 and every
\* rank lies in 1..row count.
IsMinRanked(df) ==
    /\ \A i \in 1..Len(df) :
        /\ df[i].VotesRank =
             1 + Cardinality({j \in 1..Len(df) : FillNa0(df[j].Votes) > FillNa0(df[i].Votes)})
        /\ df[i].VotesRank \in 1..Len(df)
        /\ (\A j \in 1..Len(df) : FillNa0(df[j].Votes) <= FillNa0(df[i].Votes))
                => df[i].VotesRank = 1
    /\ \A i, j \in 1..Len(df) :
        /\ FillNa0(df[i].Votes) = FillNa0(df[j].Votes) => df[i].VotesRank = df[j].VotesRank
        /\ FillNa0(df[i].Votes) > FillNa0(df[j].Votes) => df[i].VotesRank < df[j].VotesRank

C3_VotesRankIsMinRank ==
    /\ (pc \notin BeforeOld /\ HasMandatory(oldFile)) => IsMinRanked(old_df)
    /\ pc \in AfterNew => IsMinRanked(new_df)

C3_Witness ==
    /\ pc = "old_read"
    /\ \E i, j, k \in 1..Len(old_df) :
        /\ i # j
        /\ old_df[i].VotesRank = 1
        /\ old_df[j].VotesRank = 1
        /\ old_df[k].VotesRank = 3
        /\ IsNA(old_df[k].Votes)

\* C4: votesDeltaPct of a joined row is undefined when the old entry is absent
\* or old.votes = 0 (absent old votes included); otherwise it is the quotient
\* (new.votes - old.votes) / old.votes, 0 standing for absent votes, and its
\* denominator is old.votes > 0.
C4_VotesDeltaPct ==
    pc \in AfterMerge =>
        \A i \in 1..Len(merged) :
            LET id == merged[i].IMDbID
                pct == merged[i].VotesDeltaPct
            IN  IF id \notin OldIds \/ OldVotes0(id) = 0
                THEN IsNA(pct)
                ELSE /\ NotNA(pct)
                     /\ Val(pct).den > 0
                     /\ Val(pct).num * OldVotes0(id)
                            = (NewVotes0(id) - OldVotes0(id)) * Val(pct).den

C4_Witness ==
    /\ pc = "merged"
    /\ \E i, j, k \in 1..Len(merged) :
        /\ merged[i].IMDbID \in BothIds
        /\ IsNA(OldEntry(merged[i].IMDbID).Votes)
        /\ IsNA(merged[i].VotesDeltaPct)
        /\ merged[j].IMDbID \in BothIds
        /\ OldEntry(merged[j].IMDbID).Votes = Some(0)
        /\ IsNA(merged[j].VotesDeltaPct)
        /\ merged[k].IMDbID \in BothIds
        /\ NotNA(merged[k].VotesDeltaPct)
        /\ Val(merged[k].VotesDeltaPct).num = -1
        /\ Val(merged[k].VotesDeltaPct).den = MaxVotes

\* C5: a row of both snapshots with old.votes = 0 (or absent old votes) is
\* never listed by 'Top percent vote gainers'.
C5_NoZeroBaselineInPercentGainers ==
    pc \in AfterBuild =>
        \A i \in 1..Len(tables.top_pct_vote_gainers) :
            OldVotes0(tables.top_pct_vote_gainers[i].IMDbID) # 0

\* C6: a row of both snapshots that lacks the old or the new rating is never
\* listed by 'Biggest rating increases' or 'Biggest rating decreases'.
C6_NoUndefinedRatingDeltaInRatingBoards ==
    pc \in AfterBuild =>
        \A id \in Range(BoardIds(tables.biggest_rating_up))
                    \cup Range(BoardIds(tables.biggest_rating_down)) :
            /\ NotNA(OldEntry(id).Rating)
            /\ NotNA(NewEntry(id).Rating)

(***************************************************************************)
(* The leaderboards as the design states them: eligibility by membership   *)
(* and floors, order by a primary key and a tie-break computed from the    *)
(* two snapshots.  A row whose key is undefined sorts after every row      *)
(* whose key is defined.                                                   *)
(***************************************************************************)
VotesDeltaOf(id) == NewVotes0(id) - OldVotes0(id)
PctDefined(id) == OldVotes0(id) > 0
RatingDeltaDefined(id) == NotNA(OldEntry(id).Rating) /\ NotNA(NewEntry(id).Rating)
RatingDeltaById(id) == F64Sub(Val(NewEntry(id).Rating), Val(OldEntry(id).Rating))
RankDeltaOf(id) == OldEntry(id).VotesRank - NewEntry(id).VotesRank

\* x sorts strictly before y: its primary key comes first, or the primary keys
\* tie and its tie-break comes first.
SortsBefore(xDef, yDef, first, same, xTbDef, yTbDef, tbFirst) ==
    \/ xDef /\ ~yDef
    \/ xDef /\ yDef /\ first
    \/ /\ (~xDef /\ ~yDef) \/ (xDef /\ yDef /\ same)
       /\ (xTbDef /\ ~yTbDef) \/ (xTbDef /\ yTbDef /\ tbFirst)

VoteGainersBefore(x, y) ==
    SortsBefore(TRUE, TRUE, VotesDeltaOf(x) > VotesDeltaOf(y),
                VotesDeltaOf(x) = VotesDeltaOf(y),
                TRUE, TRUE, NewVotes0(x) > NewVotes0(y))

PctGainersBefore(x, y) ==
    LET both == PctDefined(x) /\ PctDefined(y)
    IN  SortsBefore(PctDefined(x), PctDefined(y),
                    both /\ VotesDeltaOf(x) * OldVotes0(y) > VotesDeltaOf(y) * OldVotes0(x),
                    both /\ VotesDeltaOf(x) * OldVotes0(y) = VotesDeltaOf(y) * OldVotes0(x),
                    TRUE, TRUE, VotesDeltaOf(x) > VotesDeltaOf(y))

RatingUpBefore(x, y) ==
    LET both == RatingDeltaDefined(x) /\ RatingDeltaDefined(y)
    IN  SortsBefore(RatingDeltaDefined(x), RatingDeltaDefined(y),
                    both /\ F64Lt(RatingDeltaById(y), RatingDeltaById(x)),
                    both /\ RatingDeltaById(x) = RatingDeltaById(y),
                    TRUE, TRUE, NewVotes0(x) > NewVotes0(y))

RatingDownBefore(x, y) ==
    LET both == RatingDeltaDefined(x) /\ RatingDeltaDefined(y)
    IN  SortsBefore(RatingDeltaDefined(x), RatingDeltaDefined(y),
                    both /\ F64Lt(RatingDeltaById(x), RatingDeltaById(y)),
                    both /\ RatingDeltaById(x) = RatingDeltaById(y),
                    TRUE, TRUE, NewVotes0(x) > NewVotes0(y))

RankJumpsBefore(x, y) ==
    SortsBefore(TRUE, TRUE, RankDeltaOf(x) > RankDeltaOf(y),
                RankDeltaOf(x) = RankDeltaOf(y),
                TRUE, TRUE, NewVotes0(x) > NewVotes0(y))

NewTitlesBefore(x, y) ==
    LET rx == NewEntry(x).Rating
        ry == NewEntry(y).Rating
    IN  SortsBefore(TRUE, TRUE, NewVotes0(x) > NewVotes0(y), NewVotes0(x) = NewVotes0(y),
                    NotNA(rx), NotNA(ry), NotNA(rx) /\ NotNA(ry) /\ Val(rx) > Val(ry))

RemovedTitlesBefore(x, y) ==
    LET rx == OldEntry(x).Rating
        ry == OldEntry(y).Rating
    IN  SortsBefore(TRUE, TRUE, OldVotes0(x) > OldVotes0(y), OldVotes0(x) = OldVotes0(y),
                    NotNA(rx), NotNA(ry), NotNA(rx) /\ NotNA(ry) /\ Val(rx) > Val(ry))

PctEligible == {id \in BothIds : OldVotes0(id) >= min_old_votes_for_percent}
NewEligible == {id \in NewIds \ OldIds : NewVotes0(id) >= new_title_min_votes}
RemovedEligible == OldIds \ NewIds

\* ids is the first min(top_n, |elig|) of the eligible ids in the given order
IsTopSlice(ids, elig, Before(_, _)) ==
    /\ Len(ids) = Min(top_n, Cardinality(elig))
    /\ Len(ids) <= top_n
    /\ Range(ids) \subseteq elig
    /\ Cardinality(Range(ids)) = Len(ids)
    /\ \A i \in 1..(Len(ids) - 1) : ~Before(ids[i + 1], ids[i])
    /\ \A x \in elig \ Range(ids) : \A y \in Range(ids) : ~Before(x, y)

\* C7: each of the seven leaderboards is the first min(topN, number of eligible
\* rows) of its eligible rows in the order of its primary key and tie-break:
\* at most topN rows, consecutive rows in order, and no eligible row left out
\* sorts strictly before a listed row.
C7_LeaderboardsAreSortedTopSlices ==
    pc \in AfterBuild =>
        /\ IsTopSlice(BoardIds(tables.top_vote_gainers), BothIds, VoteGainersBefore)
        /\ IsTopSlice(BoardIds(tables.top_pct_vote_gainers), PctEligible, PctGainersBefore)
        /\ IsTopSlice(BoardIds(tables.biggest_rating_up), BothIds, RatingUpBefore)
        /\ IsTopSlice(BoardIds(tables.biggest_rating_down), BothIds, RatingDownBefore)
        /\ IsTopSlice(BoardIds(tables.biggest_rank_jumps), BothIds, RankJumpsBefore)
        /\ IsTopSlice(BoardIds(tables.new_titles), NewEligible, NewTitlesBefore)
        /\ IsTopSlice(BoardIds(tables.removed_titles), RemovedEligible, RemovedTitlesBefore)

\* Three common titles, two places: the title with the greatest gain is listed
\* first although it is the last row of the join, and the smallest is cut.
C7_Witness ==
    /\ pc = "built"
    /\ top_n = 2
    /\ BothIds = {<<"a">>, <<"b">>, <<"c">>}
    /\ VotesDeltaOf(<<"c">>) > VotesDeltaOf(<<"b">>)
    /\ VotesDeltaOf(<<"b">>) > VotesDeltaOf(<<"a">>)
    /\ BoardIds(tables.top_vote_gainers) = <<<<"c">>, <<"b">>>>

\* C8: no leaderboard lists a row outside its eligibility filter.
C8_LeaderboardsRespectEligibility ==
    pc \in AfterBuild =>
        /\ Range(BoardIds(tables.top_vote_gainers)) \subseteq BothIds
        /\ Range(BoardIds(tables.top_pct_vote_gainers)) \subseteq BothIds
        /\ Range(BoardIds(tables.biggest_rating_up)) \subseteq BothIds
        /\ Range(BoardIds(tables.biggest_rating_down)) \subseteq BothIds
        /\ Range(BoardIds(tables.biggest_rank_jumps)) \subseteq BothIds
        /\ \A id \in Range(BoardIds(tables.new_titles)) :
            /\ id \in NewIds \ OldIds
            /\ NewVotes0(id) >= new_title_min_votes
        /\ Range(BoardIds(tables.removed_titles)) \subseteq OldIds \ NewIds
        /\ \A id \in Range(BoardIds(tables.top_pct_vote_gainers)) :
            OldVotes0(id) >= min_old_votes_for_percent

\* Both floors exclude a title while another passes.
C8_Witness ==
    /\ pc = "built"
    /\ \E x, y \in NewIds \ OldIds :
        /\ NewVotes0(x) < new_title_min_votes
        /\ BoardIds(tables.new_titles) = <<y>>
    /\ top_n >= 2

\* C9: the floor minOldVotesForPercent is inclusive: a row of both snapshots
\* with old.votes = minOldVotesForPercent > 0 is listed by the percent-gainer
\* leaderboard unless topN rows that do not sort after it fill the leaderboard.
C9_PercentFloorIsInclusive ==
    pc \in AfterBuild =>
        \A id \in BothIds :
            (OldVotes0(id) = min_old_votes_for_percent /\ OldVotes0(id) > 0) =>
                LET board == BoardIds(tables.top_pct_vote_gainers)
                IN  \/ id \in Range(board)
                    \/ /\ Len(board) = top_n
                       /\ \A y \in Range(board) : ~PctGainersBefore(id, y)

C9_Witness ==
    /\ pc = "built"
    /\ \E id \in BothIds :
        /\ OldVotes0(id) = min_old_votes_for_percent
        /\ OldVotes0(id) > 0
        /\ id \in Range(BoardIds(tables.top_pct_vote_gainers))

\* C10: a catalog that lacks a required column fails the load with an error
\* naming the missing columns, before any join and with no document written; a
\* catalog that lacks only primary_genre and/or runtime loads, with those
\* fields absent on every row.
LoadFailure(path, file) ==
    /\ pc = "failed"
    /\ error = Some([path |-> path, missing |-> MandatoryFields \ file.cols])
    /\ merged = <<>>
    /\ tables = NoTables
    /\ report = NA

OptionalFieldsAbsent(file, df) ==
    \A i \in 1..Len(df) :
        /\ "primary_genre" \notin file.cols => IsNA(df[i].primary_genre)
        /\ "runtime" \notin file.cols => IsNA(df[i].runtime)
        /\ "primary_genre" \in file.cols => NotNA(df[i].primary_genre)
        /\ "runtime" \in file.cols => NotNA(df[i].runtime)

C10_MissingRequiredColumnsFailTheLoad ==
    /\ (pc \notin BeforeOld /\ ~HasMandatory(oldFile)) => LoadFailure("old", oldFile)
    /\ (pc \notin BeforeNew /\ HasMandatory(oldFile) /\ ~HasMandatory(newFile))
            => LoadFailure("new", newFile)
    /\ pc = "failed" => (merged = <<>> /\ report = NA)
    /\ (pc \notin BeforeOld /\ HasMandatory(oldFile)) =>
            /\ pc = "failed" => ~HasMandatory(newFile)
            /\ OptionalFieldsAbsent(oldFile, old_df)
    /\ (pc \notin BeforeNew /\ HasMandatory(oldFile) /\ HasMandatory(newFile)) =>
            /\ pc # "failed"
            /\ OptionalFieldsAbsent(newFile, new_df)

\* The old catalog, without runtime, has loaded; the new one lacks Votes.
C10_Witness ==
    /\ pc = "failed"
    /\ Val(error).path = "new"
    /\ Val(error).missing = {"Votes"}
    /\ oldFile.cols = AllColumns \ {"runtime"}
    /\ Len(old_df) = 2
    /\ \A i \in 1..Len(old_df) : IsNA(old_df[i].runtime) /\ NotNA(old_df[i].primary_genre)

\* C11: a joined row whose new entry is present has votesDelta = new.votes -
\* old.votes, 0 standing for absent votes and for an absent old entry; a
\* removed-only row (no new entry) carries no votesDelta.
C11_VotesDeltaOnlyWhenNewIsPresent ==
    pc \in AfterMerge =>
        \A i \in 1..Len(merged) :
            LET id == merged[i].IMDbID
            IN  IF id \in NewIds
                THEN merged[i].VotesDelta = NewVotes0(id) - OldVotes0(id)
                ELSE merged[i].VotesDelta \notin Int

\* C19: whatever integers the command line carries, _make_report runs with
\* topN >= 1, minOldVotesForPercent >= 0 and newTitleMinVotes >= 0: a number
\* below the minimum becomes the minimum, a legal number is passed unchanged.
C19_ParametersAreClamped ==
    pc # "main" =>
        /\ top_n >= 1
        /\ min_old_votes_for_percent >= 0
        /\ new_title_min_votes >= 0
        /\ top_n = (IF args.top < 1 THEN 1 ELSE args.top)
        /\ min_old_votes_for_percent =
              (IF args.min_old_votes_for_percent < 0 THEN 0
               ELSE args.min_old_votes_for_percent)
        /\ new_title_min_votes =
              (IF args.new_title_min_votes < 0 THEN 0 ELSE args.new_title_min_votes)

\* --top 0 with a negative floor and a legal one: the report is built with
\* one row a table.
C19_Witness ==
    /\ pc = "built"
    /\ args.top = 0
    /\ args.min_old_votes_for_percent < 0
    /\ args.new_title_min_votes = MaxNewMin
    /\ top_n = 1
    /\ min_old_votes_for_percent = 0
    /\ new_title_min_votes = MaxNewMin
    /\ Len(tables.top_vote_gainers) = 1

IdsWithMerge(m, kind) == {m[i].IMDbID : i \in {k \in 1..Len(m) : m[k]._merge = kind}}

IsExample == oldFile.rows = ExampleOldRows /\ newFile.rows = ExampleNewRows

\* C12: for the snapshots {A: 100 votes, 7.0; B: 50 votes, 8.0} and
\* {A: 150 votes, 7.2; C: 40 votes, 6.0} the rows of both snapshots are {A},
\* with votesDelta = 50, votesDeltaPct = 50/100 = 0.5 and ratingDelta the
\* float64 difference 7.2 - 7.0 (0.2 to within 2 * 2^-50 / 10, shown as +0.2);
\* the new-only rows are {C}, the removed-only rows {B}, and 'Top vote gainers'
\* is [A] for every topN >= 1.
C12_EndToEndExample ==
    /\ (IsExample /\ pc \in AfterMerge) =>
        /\ IdsWithMerge(merged, "both") = {<<"A">>}
        /\ IdsWithMerge(merged, "right_only") = {<<"C">>}
        /\ IdsWithMerge(merged, "left_only") = {<<"B">>}
        /\ Len(merged) = 3
        /\ \A i \in 1..Len(merged) :
            merged[i].IMDbID = <<"A">> =>
                /\ merged[i].VotesDelta = 50
                /\ NotNA(merged[i].VotesDeltaPct)
                /\ 2 * Val(merged[i].VotesDeltaPct).num = Val(merged[i].VotesDeltaPct).den
                /\ merged[i].RatingDelta = Some([tenths |-> 2, ulps |-> 2])
    /\ (IsExample /\ pc \in AfterBuild) =>
        /\ top_n >= 1
        /\ BoardIds(tables.top_vote_gainers) = <<<<"A">>>>

C12_Witness ==
    /\ IsExample
    /\ pc = "built"
    /\ top_n = MaxTop
    /\ BoardIds(tables.top_vote_gainers) = <<<<"A">>>>
    /\ BoardIds(tables.removed_titles) = <<<<"B">>>>

Shows(tab, col) == col \in Range(tab.columns)
\* the rating a table of the given leaderboard shows for a title
ShownRating(name, id) ==
    IF name = "removed_titles" THEN OldEntry(id).Rating ELSE NewEntry(id).Rating

\* the derived cells and the rating of row i of a written table are empty
\* when the value is undefined or absent
UndefinedCellsAreEmpty(name, tab, id, i) ==
    /\ (Shows(tab, "Votes delta%") /\ ~(id \in OldIds /\ OldVotes0(id) > 0))
            => tab.rows[i]["Votes delta%"] = <<>>
    /\ (Shows(tab, "Rank delta") /\ id \notin BothIds) => tab.rows[i]["Rank delta"] = <<>>
    /\ IsNA(ShownRating(name, id)) => tab.rows[i]["Score"] = <<>>

\* the votes cells of row i of a written table are empty when the snapshot
\* has no votes for the title
AbsentVotesCellsAreEmpty(tab, id, i) ==
    /\ (Shows(tab, "Votes (old)") /\ id \in OldIds /\ IsNA(OldEntry(id).Votes))
            => tab.rows[i]["Votes (old)"] = <<>>
    /\ (Shows(tab, "Votes (new)") /\ id \in NewIds /\ IsNA(NewEntry(id).Votes))
            => tab.rows[i]["Votes (new)"] = <<>>

\* C13: in every table of the written document a value that is absent in the
\* snapshot or an undefined derived value is an empty cell: the votes cell of
\* a title whose votes are absent in that snapshot is empty and not a number,
\* and an undefined votesDeltaPct, rank delta or rating is an empty cell; every
\* listed row is rendered.
C13_AbsentValuesRenderEmpty ==
    pc = "written" =>
        \A name \in DOMAIN tables :
            LET tab == Val(report).tables[name]
            IN  /\ Len(tab.rows) = Len(tables[name])
                /\ \A i \in 1..Len(tab.rows) :
                    /\ UndefinedCellsAreEmpty(name, tab, tables[name][i].IMDbID, i)
                    /\ AbsentVotesCellsAreEmpty(tab, tables[name][i].IMDbID, i)

\* the rows of a file that carry the id, by position
RowsWithId(file, id) == {k \in 1..Len(file.rows) : file.rows[k].IMDbID = id}
\* the first row, in file order, among the rows of the id with the most votes
FirstOfGreatestVotes(file, id) ==
    CHOOSE k \in RowsWithId(file, id) :
        /\ \A j \in RowsWithId(file, id) :
                FillNa0(file.rows[j].Votes) <= FillNa0(file.rows[k].Votes)
        /\ \A j \in RowsWithId(file, id) :
                FillNa0(file.rows[j].Votes) = FillNa0(file.rows[k].Votes) => k <= j
KeepsFirstOfGreatestVotes(file, df) ==
    \A id \in IdsOf(df) :
        /\ Cardinality({i \in 1..Len(df) : df[i].IMDbID = id}) = 1
        /\ \A i \in 1..Len(df) :
            df[i].IMDbID = id =>
                /\ df[i].Votes = file.rows[FirstOfGreatestVotes(file, id)].Votes
                /\ df[i].Rating = file.rows[FirstOfGreatestVotes(file, id)].Rating

\* C16: of the rows of a file that share an id the loader keeps exactly one, a
\* row with the greatest votes (absent counted as 0), and among the rows that
\* tie on the greatest votes the first one in file order.
C16_DedupKeepsFirstOfGreatestVotes ==
    /\ (pc \notin BeforeOld /\ HasMandatory(oldFile)) =>
            KeepsFirstOfGreatestVotes(oldFile, old_df)
    /\ pc \in AfterNew => KeepsFirstOfGreatestVotes(newFile, new_df)

\* Three rows of one id: absent votes, then two rows that tie on the greatest
\* votes with different ratings; the second row of the file survives.
C16_Witness ==
    /\ pc = "old_read"
    /\ Len(oldFile.rows) = 3
    /\ \A k \in 1..3 : oldFile.rows[k].IMDbID = <<"a">>
    /\ IsNA(oldFile.rows[1].Votes)
    /\ oldFile.rows[2].Votes = Some(MaxVotes)
    /\ oldFile.rows[3].Votes = Some(MaxVotes)
    /\ oldFile.rows[2].Rating # oldFile.rows[3].Rating
    /\ Len(old_df) = 1
    /\ old_df[1].Rating = oldFile.rows[2].Rating

\* 1 + the number of entries of the snapshot with strictly more votes
RankWithin(df, id) ==
    LET votes == FillNa0((CHOOSE r \in Range(df) : r.IMDbID = id).Votes)
    IN  1 + Cardinality({i \in 1..Len(df) : FillNa0(df[i].Votes) > votes})

\* C17: a row of both snapshots has rankDelta = old.votesRank - new.votesRank,
\* each rank counted inside its own snapshot, so rankDelta > 0 exactly when the
\* new rank is nearer to 1 than the old one; a new-only or removed-only row has
\* no rankDelta; 'Biggest rank jumps' lists only rows with a rankDelta.
C17_RankDelta ==
    /\ pc \in AfterMerge =>
        \A i \in 1..Len(merged) :
            LET id == merged[i].IMDbID
            IN  IF id \in BothIds
                THEN /\ NotNA(merged[i].RankChange)
                     /\ Val(merged[i].RankChange)
                            = RankWithin(old_df, id) - RankWithin(new_df, id)
                     /\ Val(merged[i].RankChange) > 0
                            <=> NewEntry(id).VotesRank < OldEntry(id).VotesRank
                ELSE IsNA(merged[i].RankChange)
    /\ pc \in AfterBuild =>
        \A i \in 1..Len(tables.biggest_rank_jumps) :
            /\ tables.biggest_rank_jumps[i].IMDbID \in BothIds
            /\ NotNA(tables.biggest_rank_jumps[i].RankChange)

\* A title that moved up, next to a removed and a new title.
C17_Witness ==
    /\ pc = "built"
    /\ \E i, j, k \in 1..Len(merged) :
        /\ merged[i]._merge = "both"
        /\ NotNA(merged[i].RankChange)
        /\ Val(merged[i].RankChange) > 0
        /\ merged[j]._merge = "left_only"
        /\ IsNA(merged[j].RankChange)
        /\ merged[k]._merge = "right_only"
        /\ IsNA(merged[k].RankChange)
        /\ BoardIds(tables.biggest_rank_jumps) = <<merged[i].IMDbID>>

DigitValue(ch) == CHOOSE d \in 0..9 : DigitChars[d + 1] = ch
\* the number a count of the summary panel reads as
RECURSIVE ParseCount(_)
ParseCount(text) ==
    IF text = <<>> THEN 0
    ELSE IF text[Len(text)] = "," THEN ParseCount(SubSeq(text, 1, Len(text) - 1))
    ELSE DigitValue(text[Len(text)]) + 10 * ParseCount(SubSeq(text, 1, Len(text) - 1))

\* C18: the three counts of the summary are the numbers of ids in both
\* snapshots, only in the new one and only in the old one: every joined row is
\* counted once, the sum is the number of distinct ids of the two snapshots,
\* and no count depends on topN or on a floor.
C18_SummaryCountsPartitionTheJoin ==
    pc = "written" =>
        /\ ParseCount(Val(report).common) = Cardinality(BothIds)
        /\ ParseCount(Val(report).new) = Cardinality(NewIds \ OldIds)
        /\ ParseCount(Val(report).removed) = Cardinality(OldIds \ NewIds)
        /\ ParseCount(Val(report).common) + ParseCount(Val(report).new)
                + ParseCount(Val(report).removed) = Cardinality(OldIds \cup NewIds)
        /\ Cardinality(OldIds \cup NewIds) = Len(merged)
        /\ \A i \in 1..Len(merged) : merged[i]._merge \in {"both", "left_only", "right_only"}

\* Two common titles are counted although the table lists one.
C18_Witness ==
    /\ pc = "written"
    /\ top_n = 1
    /\ ParseCount(Val(report).common) = 2
    /\ Len(Val(report).tables.top_vote_gainers.rows) = 1

(***************************************************************************)
(* Properties of the daily build.                                          *)
(***************************************************************************)
\* what a step of the builds does to run r's folder
GetsFreshFolder(r) ==
    (IsNA(runs[r].daily_dir) /\ NotNA(runs'[r].daily_dir)) =>
        /\ Val(runs'[r].daily_dir) \notin dirs
        /\ Val(runs'[r].daily_dir) \in dirs'
        /\ \A s \in Runs \ {r} : runs'[s].daily_dir # runs'[r].daily_dir
        /\ \E i \in 1..(Cardinality(dirs) + 1) :
            /\ Val(runs'[r].daily_dir) =
                  (IF i = 1 THEN <<"YYYY-MM-DD">>
                   ELSE <<"YYYY-MM-DD", "_">> \o Digits(i))
            /\ \A j \in 1..(i - 1) :
                  (IF j = 1 THEN <<"YYYY-MM-DD">>
                   ELSE <<"YYYY-MM-DD", "_">> \o Digits(j)) \in dirs

\* the folder run r was about to create has appeared: the run fails
FailsOnLostRace(r) ==
    (runs[r].pc = "mkdir" /\ runs'[r] # runs[r] /\ Candidate(runs[r].i) \in dirs) =>
        /\ runs'[r].pc = "failed"
        /\ IsNA(runs'[r].daily_dir)
        /\ dirs' = dirs

\* C15: a run is never given a folder that existed: the folder it gets did
\* not exist, is created by that step, is no other run's folder, and is
\* <label> or <label>_i for the smallest i >= 2 such that <label>_i did not
\* exist (<label> and every <label>_j below it existed); a run whose folder
\* appeared between its existence test and its mkdir fails and gets no
\* folder; a run keeps its folder and no two runs ever have the same one.
C15_DailyDirIsNeverShared ==
    [][\A r \in Runs :
          /\ GetsFreshFolder(r)
          /\ FailsOnLostRace(r)
          /\ NotNA(runs[r].daily_dir) => runs'[r].daily_dir = runs[r].daily_dir
          /\ \A s \in Runs \ {r} :
                NotNA(runs'[r].daily_dir) => runs'[s].daily_dir # runs'[r].daily_dir]_vars

\* <label> was there; both runs went for <label>_2: one made it, the other
\* lost the race and failed before any script.
C15_Witness ==
    /\ <<"YYYY-MM-DD">> \in dirs
    /\ \E r, s \in Runs :
        /\ runs[r].daily_dir = Some(<<"YYYY-MM-DD", "_", "2">>)
        /\ runs[s].pc = "failed"
        /\ runs[s].started = <<>>
        /\ runs[s].i = 2

StepOrder(min_votes) ==
    <<"01_download_imdb.py", "02_create_catalog.py">>
        \o (IF min_votes > 0 THEN <<"03_filter_catalog.py">> ELSE <<>>)
        \o <<"04_make_database.py">>

IsPrefix(s, t) == Len(s) <= Len(t) /\ \A k \in 1..Len(s) : s[k] = t[k]

StepsInOrder(r) ==
    LET log == runs[r].started
        scripts == [k \in 1..Len(log) |-> log[k].script]
        filtered == \E k \in 1..Len(log) :
                        log[k].script = "03_filter_catalog.py" /\ log[k].exit = "ok"
    IN  /\ IsPrefix(scripts, StepOrder(cmd.min_votes))
        /\ \A k \in 1..(Len(log) - 1) : log[k].exit = "ok"
        /\ \A k \in 1..Len(log) :
            /\ log[k].exit = "failed" => runs[r].pc = "failed"
            /\ log[k].exit = "running" => runs[r].pc = "wait"
            /\ log[k].args[2] = Val(runs[r].daily_dir) \/ log[k].args[3] = Val(runs[r].daily_dir)
            /\ log[k].script = "04_make_database.py" =>
                /\ filtered <=> cmd.min_votes > 0
                /\ log[k].args[3] =
                      (IF filtered
                       THEN <<"media_catalog_">> \o Digits(cmd.min_votes) \o <<".csv">>
                       ELSE <<"media_catalog.csv">>)
        /\ runs[r].pc = "done" =>
            /\ scripts = StepOrder(cmd.min_votes)
            /\ log[Len(log)].exit = "ok"
        /\ (runs[r].pc = "failed" /\ log # <<>>) => log[Len(log)].exit = "failed"

\* C20: the scripts a run has started are a prefix of download, create
\* catalog, filter (only when min_votes > 0), make database; every script but
\* the last started has exited successfully, and after a failure the run has
\* ended; the database script is given media_catalog_<min_votes>.csv exactly
\* when the filter ran, media_catalog.csv otherwise.
C20_StepsRunInOrder == \A r \in Runs : StepsInOrder(r)

\* One run went through the four scripts, the filter included; another one
\* ended when its second script failed.
C20_Witness ==
    \E r, s \in Runs :
        /\ runs[r].pc = "done"
        /\ Len(runs[r].started) = 4
        /\ runs[r].started[3].script = "03_filter_catalog.py"
        /\ runs[s].pc = "failed"
        /\ Len(runs[s].started) = 2
        /\ runs[s].started[2].exit = "failed"

====
